---- MODULE Spec2Model ----
(***************************************************************************)
(* react-scripts/config/modules.js: derives the module-resolution bundle   *)
(* {additionalModulePaths, webpackAliases, jestAliases, hasTsConfig} from  *)
(* tsconfig.json / jsconfig.json, with a one-level `extends` merge.        *)
(*                                                                         *)
(* Encoding of JavaScript values                                           *)
(*   string used as a path or key : the sequence s.split("/"), so          *)
(*       "./src/utils/*" is <<".", "src", "utils", "*">>, "" is <<"">>,    *)
(*       "/proj" is <<"", "proj">>;                                        *)
(*   target (a value of a paths mapping, an alias value) : a record        *)
(*       [k, s, a], k the kind, s the string, a the array of strings;      *)
(*   value (compilerOptions.paths, an output table) : a record [k, lit, o],*)
(*       o the own enumerable entries in iteration order, each             *)
(*       [key, val] with val a target; lit the literal of a scalar.        *)
(***************************************************************************)
EXTENDS Integers, Sequences, FiniteSets, TLC

\* Largest number of entries of a paths mapping read from a config file.
MaxKeys == 2

\* Number of times the resolve step is applied in SpecResolve.
MaxRounds == 2

(***************************************************************************)
(* ./paths (the host's ProjectPaths): absolute directories and file names. *)
(***************************************************************************)
appPath == <<"", "proj">>

appSrc == appPath \o <<"src">>

appNodeModules == appPath \o <<"node_modules">>

appTsConfig == appPath \o <<"tsconfig.json">>

appJsConfig == appPath \o <<"jsconfig.json">>

\* process.cwd(): ./paths takes the project root from it.
cwd == appPath

(***************************************************************************)
(* Node's path module (posix).                                             *)
(***************************************************************************)
isAbsolute(p) == Len(p) >= 2 /\ p[1] = ""

RECURSIVE normalizeSegments(_, _)
normalizeSegments(segs, stack) ==
  IF segs = <<>> THEN stack
  ELSE LET h == Head(segs) IN
       normalizeSegments(Tail(segs),
         IF h = "" \/ h = "." THEN stack
         ELSE IF h = ".."
              THEN (IF stack = <<>> THEN stack
                    ELSE SubSeq(stack, 1, Len(stack) - 1))
              ELSE Append(stack, h))

absoluteOf(stack) == IF stack = <<>> THEN <<"", "">> ELSE <<"">> \o stack

\* path.resolve(from, to) for two strings: arguments are taken right to left
\* until an absolute one is found, then the current directory.
pathResolve(from, to) ==
  absoluteOf(normalizeSegments(
    IF isAbsolute(to) THEN to
    ELSE IF isAbsolute(from) THEN from \o to
    ELSE cwd \o from \o to, <<>>))

\* path.relative(from, to) === ''
pathRelativeIsEmpty(from, to) == pathResolve(cwd, from) = pathResolve(cwd, to)

\* path.dirname of an absolute file name
pathDirname(p) == SubSeq(p, 1, Len(p) - 1)

\* Variant of stripWildcard that leaves the trailing "/*" in place.
stripWildcardKept(s) == s

\* s.replace(/\/\*$/, ''): one trailing "/*" is removed.
stripWildcard(s) ==
  IF Len(s) >= 2 /\ s[Len(s)] = "*" THEN SubSeq(s, 1, Len(s) - 1) ELSE s

(***************************************************************************)
(* JavaScript values.                                                      *)
(***************************************************************************)
TUndef == [k |-> "undefined", s |-> <<>>, a |-> <<>>]

TStr(s) == [k |-> "string", s |-> s, a |-> <<>>]

TArr(a) == [k |-> "array", s |-> <<>>, a |-> a]

VUndef == [k |-> "undefined", lit |-> "", o |-> <<>>]

VNull == [k |-> "null", lit |-> "null", o |-> <<>>]

VLit(k, lit) == [k |-> k, lit |-> lit, o |-> <<>>]

VObj(o) == [k |-> "object", lit |-> "", o |-> o]

Entry(key, val) == [key |-> key, val |-> val]

\* A JavaScript array of strings: its own keys are the indices.
IndexKeys == <<"0", "1", "2", "3">>

VArr(items) ==
  [k |-> "array", lit |-> "",
   o |-> [i \in 1..Len(items) |-> Entry(<<IndexKeys[i]>>, TStr(items[i]))]]

\* ToBoolean
truthy(v) ==
  CASE v.k \in {"object", "array"} -> TRUE
    [] v.k = "boolean" -> v.lit = "true"
    [] v.k = "number" -> v.lit # "0"
    [] v.k = "string" -> v.lit # ""
    [] OTHER -> FALSE

\* typeof v === 'object'
typeofObject(v) == v.k \in {"object", "array", "null"}

\* ToBoolean of a string-or-undefined path value [k, s]
truthyStr(b) == b.k = "string" /\ b.s # <<"">>

isIndexKey(key) == Len(key) = 1 /\ \E i \in 1..Len(IndexKeys) : IndexKeys[i] = key[1]

indexOf(key) == CHOOSE i \in 1..Len(IndexKeys) : IndexKeys[i] = key[1]

hasKey(o, key) == \E i \in 1..Len(o) : o[i].key = key

\* o[key], undefined when o has no such own property
getProp(o, key) ==
  IF hasKey(o, key) THEN o[CHOOSE i \in 1..Len(o) : o[i].key = key].val
  ELSE TUndef

\* o[key] = val: an existing key keeps its place, a new index key goes among
\* the index keys in ascending order, any other new key goes last.
setProp(o, key, val) ==
  IF hasKey(o, key)
  THEN [i \in 1..Len(o) |-> IF o[i].key = key THEN Entry(key, val) ELSE o[i]]
  ELSE IF isIndexKey(key)
  THEN LET before == {i \in 1..Len(o) :
                        isIndexKey(o[i].key) /\ indexOf(o[i].key) < indexOf(key)}
           n == Cardinality(before)
       IN  SubSeq(o, 1, n) \o <<Entry(key, val)>> \o SubSeq(o, n + 1, Len(o))
  ELSE Append(o, Entry(key, val))

\* { ...o, ...src }
RECURSIVE spread(_, _)
spread(o, src) ==
  IF src = <<>> THEN o
  ELSE spread(setProp(o, Head(src).key, Head(src).val), Tail(src))

\* The entries a spread of v copies: those of an object or an array; nothing
\* for undefined, null, a number, a boolean or the empty string.
ownEntries(v) == IF v.k \in {"object", "array"} THEN v.o ELSE <<>>

(***************************************************************************)
(* Configurations.  A config read from a file is                           *)
(*   [co, baseUrl, paths, extends]                                         *)
(* co: whether compilerOptions is present; baseUrl: [k, s]; paths: a value;*)
(* extends: [k, s, conf], a string as written in the file, or, once        *)
(* readConfig has replaced it, the loaded parent object conf.              *)
(* A parent config is [co, baseUrl, paths].                                *)
(***************************************************************************)
SUndef == [k |-> "undefined", s |-> <<>>]

SStr(s) == [k |-> "string", s |-> s]

EmptyParent == [co |-> FALSE, baseUrl |-> SUndef, paths |-> VUndef]

XUndef == [k |-> "undefined", s |-> <<>>, conf |-> EmptyParent]

XStr(s) == [k |-> "string", s |-> s, conf |-> EmptyParent]

XObj(conf) == [k |-> "object", s |-> <<>>, conf |-> conf]

\* `config || {}`: the config of a project with neither file.
EmptyConfig ==
  [co |-> FALSE, baseUrl |-> SUndef, paths |-> VUndef, extends |-> XUndef]

\* ToBoolean(conf.extends)
truthyExtends(x) == x.k = "object" \/ (x.k = "string" /\ x.s # <<"">>)

\* The one parent config file of the file system.
ParentFile == appPath \o <<"base.json">>

Ok(val) == [err |-> "", val |-> val]

Throw(err) == [err |-> err, val |-> <<>>]

\* Variant of configPathsRaw in which the child's entries overlay the
\* parent's.
configPathsRawChildWins(conf) ==
  LET confPaths == IF conf.co /\ truthy(conf.paths) THEN conf.paths ELSE VObj(<<>>)
      ext == IF conf.extends.k = "object" THEN conf.extends.conf ELSE EmptyParent
      extPaths == IF ext.co /\ truthy(ext.paths) THEN ext.paths ELSE VObj(<<>>)
  IN  IF ~typeofObject(confPaths) THEN Throw("InvalidPathsError")
      ELSE IF ~typeofObject(extPaths) THEN Throw("InvalidPathsError")
      ELSE Ok(spread(spread(<<>>, ownEntries(extPaths)), ownEntries(confPaths)))

\* configPathsRaw(conf), conf.extends already replaced by the parent object.
configPathsRaw(conf) ==
  LET confPaths == IF conf.co /\ truthy(conf.paths) THEN conf.paths ELSE VObj(<<>>)
      ext == IF conf.extends.k = "object" THEN conf.extends.conf ELSE EmptyParent
      extPaths == IF ext.co /\ truthy(ext.paths) THEN ext.paths ELSE VObj(<<>>)
  IN  IF ~typeofObject(confPaths) THEN Throw("InvalidPathsError")
      ELSE IF ~typeofObject(extPaths) THEN Throw("InvalidPathsError")
      ELSE Ok(spread(spread(<<>>, ownEntries(confPaths)), ownEntries(extPaths)))

\* Array.isArray(value) ? value[0] : value
firstTarget(value) ==
  IF value.k = "array"
  THEN (IF value.a = <<>> THEN TUndef ELSE TStr(value.a[1]))
  ELSE value

\* The reduce of readConfig over Object.keys(pathsRaw), from accumulator a.
RECURSIVE aliasReduce(_, _)
aliasReduce(a, entries) ==
  IF entries = <<>> THEN Ok(a)
  ELSE LET e == Head(entries)
           target == firstTarget(e.val)
       IN  IF target.k # "string" THEN Throw("TypeError")
           ELSE aliasReduce(
                  setProp(a, stripWildcard(e.key),
                          TStr(pathResolve(appPath, stripWildcard(target.s)))),
                  Tail(entries))

\* require(extPath)
requireConfig(extPath, parent) ==
  IF extPath = ParentFile THEN Ok(parent) ELSE Throw("ConfigLoadError")

\* readConfig(conf, configDir), with parent the content of ParentFile.
\* The outcome carries the locals pathsRaw and aliasMap.
readConfig(conf, configDir, parent) ==
  LET confdir == pathDirname(configDir)
      extUrl == conf.extends
      none == [err |-> "", config |-> conf, pathsRaw |-> <<>>,
               aliasMap |-> <<>>, required |-> FALSE]
      loaded == IF ~truthyExtends(extUrl) THEN Ok(EmptyParent)
                ELSE IF extUrl.k # "string" THEN Throw("TypeError")
                ELSE requireConfig(pathResolve(confdir, extUrl.s), parent)
      config == [conf EXCEPT !.extends = XObj(loaded.val)]
      raw == configPathsRaw(config)
      am == aliasReduce(<<>>, raw.val)
      req == truthyExtends(extUrl) /\ extUrl.k = "string"
  IN  IF loaded.err # "" THEN [none EXCEPT !.err = loaded.err, !.required = req]
      ELSE IF raw.err # ""
      THEN [none EXCEPT !.err = raw.err, !.config = config, !.required = req]
      ELSE IF am.err # ""
      THEN [none EXCEPT !.err = am.err, !.config = config, !.required = req,
                        !.pathsRaw = raw.val]
      ELSE IF ~config.co
      THEN [none EXCEPT !.err = "TypeError", !.config = config, !.required = req,
                        !.pathsRaw = raw.val, !.aliasMap = am.val]
      ELSE [err |-> "",
            config |-> [config EXCEPT
                          !.paths = VObj(spread(spread(<<>>, ownEntries(config.paths)),
                                                am.val))],
            pathsRaw |-> raw.val, aliasMap |-> am.val, required |-> req]

\* Variant of resolveConfig that merges whether or not extends is set.
resolveConfigAlways(conf, configDir, parent) == readConfig(conf, configDir, parent)

\* getModules, lines 192-196: `if (config.extends) config = readConfig(...)`.
resolveConfig(conf, configDir, parent) ==
  IF truthyExtends(conf.extends) THEN readConfig(conf, configDir, parent)
  ELSE [err |-> "", config |-> conf, pathsRaw |-> <<>>, aliasMap |-> <<>>,
        required |-> FALSE]

\* `config.compilerOptions || {}`
optionsOf(config) ==
  IF config.co THEN [baseUrl |-> config.baseUrl, paths |-> config.paths]
  ELSE [baseUrl |-> SUndef, paths |-> VUndef]

\* Variant of getAdditionalModulePaths that accepts any other baseUrl.
getAdditionalModulePathsLenient(options) ==
  LET baseUrl == options.baseUrl
      baseUrlResolved == pathResolve(appPath, baseUrl.s)
  IN  IF ~truthyStr(baseUrl) THEN Ok(VLit("string", ""))
      ELSE IF pathRelativeIsEmpty(appNodeModules, baseUrlResolved) THEN Ok(VNull)
      ELSE IF pathRelativeIsEmpty(appSrc, baseUrlResolved) THEN Ok(VArr(<<appSrc>>))
      ELSE Ok(VNull)

\* Variant of getAdditionalModulePaths that treats the project root as src.
getAdditionalModulePathsRootAsSrc(options) ==
  LET baseUrl == options.baseUrl
      baseUrlResolved == pathResolve(appPath, baseUrl.s)
  IN  IF ~truthyStr(baseUrl) THEN Ok(VLit("string", ""))
      ELSE IF pathRelativeIsEmpty(appNodeModules, baseUrlResolved) THEN Ok(VNull)
      ELSE IF pathRelativeIsEmpty(appSrc, baseUrlResolved) THEN Ok(VArr(<<appSrc>>))
      ELSE IF pathRelativeIsEmpty(appPath, baseUrlResolved) THEN Ok(VArr(<<appSrc>>))
      ELSE Throw("UnsupportedBaseUrlError")

\* getAdditionalModulePaths(options): '' | null | [appSrc] | throw
getAdditionalModulePaths(options) ==
  LET baseUrl == options.baseUrl
      baseUrlResolved == pathResolve(appPath, baseUrl.s)
  IN  IF ~truthyStr(baseUrl) THEN Ok(VLit("string", ""))
      ELSE IF pathRelativeIsEmpty(appNodeModules, baseUrlResolved) THEN Ok(VNull)
      ELSE IF pathRelativeIsEmpty(appSrc, baseUrlResolved) THEN Ok(VArr(<<appSrc>>))
      ELSE IF pathRelativeIsEmpty(appPath, baseUrlResolved) THEN Ok(VNull)
      ELSE Throw("UnsupportedBaseUrlError")

\* getWebpackAliases(options).  `const { baseUrl, paths } = options` hides the
\* module-level `paths`, so paths.appPath and paths.appSrc are read from
\* compilerOptions.paths.
getWebpackAliases(options) ==
  LET baseUrl == options.baseUrl
      paths == options.paths
      pathsAppPath == IF paths.k \in {"object", "array"}
                      THEN getProp(paths.o, <<"appPath">>) ELSE TUndef
      pathsAppSrc == IF paths.k \in {"object", "array"}
                     THEN getProp(paths.o, <<"appSrc">>) ELSE TUndef
      baseUrlResolved == pathResolve(pathsAppPath.s, baseUrl.s)
  IN  IF ~truthyStr(baseUrl) /\ truthy(paths) THEN Ok(paths)
      ELSE IF ~truthyStr(baseUrl) THEN Ok(VObj(<<>>))
      \* paths.appPath of undefined or null
      ELSE IF paths.k \in {"undefined", "null"} THEN Throw("TypeError")
      \* path.resolve validates its first argument unless the second is absolute
      ELSE IF ~isAbsolute(baseUrl.s) /\ pathsAppPath.k # "string" THEN Throw("TypeError")
      \* path.relative validates its first argument
      ELSE IF pathsAppPath.k # "string" THEN Throw("TypeError")
      ELSE IF pathRelativeIsEmpty(pathsAppPath.s, baseUrlResolved)
      THEN Ok(VObj(spread(<<Entry(<<"src">>, pathsAppSrc)>>, ownEntries(paths))))
      ELSE Ok(VUndef)

JestSrcAlias ==
  <<Entry(<<"^src", "(.*)$">>, TStr(<<"<rootDir>", "src", "$1">>))>>

\* getJestAliases(options)
getJestAliases(options) ==
  LET baseUrl == options.baseUrl
      baseUrlResolved == pathResolve(appPath, baseUrl.s)
  IN  IF ~truthyStr(baseUrl) THEN Ok(VObj(<<>>))
      ELSE IF pathRelativeIsEmpty(appPath, baseUrlResolved) THEN Ok(VObj(JestSrcAlias))
      ELSE Ok(VUndef)

(***************************************************************************)
(* Contents the config files may have.                                     *)
(***************************************************************************)
BaseUrls ==
  { SUndef,
    SStr(<<"">>),
    SStr(<<".">>),
    SStr(<<"src">>),
    SStr(<<"node_modules">>),
    SStr(<<".", "packages", "shared">>),
    SStr(<<"src", "..">>),
    SStr(<<"", "proj", "src">>) }

ChildEntries ==
  { Entry(<<"utils", "*">>, TArr(<< <<".", "src", "utils", "*">> >>)),
    Entry(<<"utils">>, TStr(<<"lib">>)),
    Entry(<<"@app", "*">>, TArr(<< <<"src", "app", "*">> >>)),
    Entry(<<"components", "*">>,
          TArr(<< <<".", "src", "components", "*">>, <<"lib", "*">> >>)),
    Entry(<<"appPath">>, TStr(<<".">>)),
    Entry(<<"empty", "*">>, TArr(<<>>)) }

ParentEntries ==
  { Entry(<<"utils", "*">>, TArr(<< <<"base", "utils", "*">> >>)),
    Entry(<<"utils">>, TArr(<< <<"base", "u">> >>)),
    Entry(<<"shared", "*">>, TArr(<< <<"..", "shared", "*">> >>)) }

\* The objects of at most MaxKeys entries of a pool, in every key order.
Mappings(pool) ==
  { m \in UNION { [1..n -> pool] : n \in 0..MaxKeys } :
      \A i, j \in 1..Len(m) : i # j => m[i].key # m[j].key }

ScalarPaths ==
  { VUndef, VNull,
    VLit("string", "oops"), VLit("string", ""),
    VLit("number", "5"), VLit("number", "0"),
    VLit("boolean", "true"), VLit("boolean", "false"),
    VArr(<<>>), VArr(<< <<"src", "*">> >>) }

ChildPaths == ScalarPaths \cup { VObj(m) : m \in Mappings(ChildEntries) }

ParentPaths == ScalarPaths \cup { VObj(m) : m \in Mappings(ParentEntries) }

ExtendsValues ==
  { XUndef, XStr(<<".", "base.json">>), XStr(<<".", "missing.json">>) }

Configs ==
  { [co |-> TRUE, baseUrl |-> b, paths |-> p, extends |-> x] :
      b \in BaseUrls, p \in ChildPaths, x \in ExtendsValues }
  \cup { [co |-> FALSE, baseUrl |-> SUndef, paths |-> VUndef, extends |-> x] :
           x \in ExtendsValues }

ParentConfigs ==
  { [co |-> TRUE, baseUrl |-> SUndef, paths |-> p] : p \in ParentPaths }
  \cup { EmptyParent }

(***************************************************************************)
(* State of one run of getModules.                                         *)
(***************************************************************************)
VARIABLES
  fs,                     \* which files exist: [ts, js, typescript]
  pc,                     \* position in getModules
  hasTsConfig,            \* locals of getModules
  hasJsConfig,
  raw,                    \* the config as read from its file
  parent,                 \* the parent config require returned
  config,                 \* the local `config`
  pathsRaw,               \* locals of readConfig
  aliasMap,
  additionalModulePaths,  \* the three sub-results
  webpackAliases,
  jestAliases,
  error,                  \* the error thrown, "" when none
  evaluated,              \* the calls made so far
  rounds                  \* times the resolve step has been applied

vars ==
  <<fs, pc, hasTsConfig, hasJsConfig, raw, parent, config, pathsRaw, aliasMap,
    additionalModulePaths, webpackAliases, jestAliases, error, evaluated, rounds>>

Locals ==
  /\ hasTsConfig = FALSE
  /\ hasJsConfig = FALSE
  /\ parent = EmptyParent
  /\ pathsRaw = <<>>
  /\ aliasMap = <<>>
  /\ additionalModulePaths = VUndef
  /\ webpackAliases = VUndef
  /\ jestAliases = VUndef
  /\ error = ""
  /\ evaluated = {}
  /\ rounds = 0

Init ==
  /\ fs \in [ts : BOOLEAN, js : BOOLEAN, typescript : BOOLEAN]
  /\ pc = "start"
  /\ raw = EmptyConfig
  /\ config = EmptyConfig
  /\ Locals

Fail(err) ==
  /\ pc' = "failed"
  /\ error' = err

\* Variant of CheckFiles without the conflict test.
CheckFilesNoConflict ==
  /\ pc = "start"
  /\ hasTsConfig' = fs.ts
  /\ hasJsConfig' = fs.js
  /\ evaluated' = evaluated \cup {"existsSync"}
  /\ pc' = "load"
  /\ UNCHANGED <<fs, raw, parent, config, pathsRaw, aliasMap,
                 additionalModulePaths, webpackAliases, jestAliases, error, rounds>>

\* Lines 173-180: the two existence checks and the conflict test.
CheckFiles ==
  /\ pc = "start"
  /\ hasTsConfig' = fs.ts
  /\ hasJsConfig' = fs.js
  /\ evaluated' = evaluated \cup {"existsSync"}
  /\ IF fs.ts /\ fs.js
     THEN Fail("ConflictingConfigError")
     ELSE pc' = "load" /\ error' = error
  /\ UNCHANGED <<fs, raw, parent, config, pathsRaw, aliasMap,
                 additionalModulePaths, webpackAliases, jestAliases, rounds>>

\* Lines 187-191: the TypeScript compiler is required from node_modules and
\* reads tsconfig.json.
LoadTsConfig ==
  /\ pc = "load"
  /\ hasTsConfig
  /\ IF ~fs.typescript
     THEN /\ Fail("ModuleNotFoundError")
          /\ evaluated' = evaluated \cup {"require:typescript"}
          /\ UNCHANGED <<raw, config>>
     ELSE \E c \in Configs :
            /\ raw' = c
            /\ config' = c
            /\ evaluated' = evaluated \cup {"require:typescript", "loadConfig"}
            /\ pc' = "resolve"
            /\ error' = error
  /\ UNCHANGED <<fs, hasTsConfig, hasJsConfig, parent, pathsRaw, aliasMap,
                 additionalModulePaths, webpackAliases, jestAliases, rounds>>

\* Lines 199-200: jsconfig.json is required.
LoadJsConfig ==
  /\ pc = "load"
  /\ ~hasTsConfig
  /\ hasJsConfig
  /\ \E c \in Configs :
       /\ raw' = c
       /\ config' = c
  /\ evaluated' = evaluated \cup {"loadConfig"}
  /\ pc' = "resolve"
  /\ UNCHANGED <<fs, hasTsConfig, hasJsConfig, parent, pathsRaw, aliasMap,
                 additionalModulePaths, webpackAliases, jestAliases, error, rounds>>

\* Line 208: neither file exists, config is {}.
NoConfig ==
  /\ pc = "load"
  /\ ~hasTsConfig
  /\ ~hasJsConfig
  /\ pc' = "options"
  /\ UNCHANGED <<fs, hasTsConfig, hasJsConfig, raw, parent, config, pathsRaw,
                 aliasMap, additionalModulePaths, webpackAliases, jestAliases,
                 error, evaluated, rounds>>

\* The effect of `if (config.extends) config = readConfig(config, file)` with
\* p the content of ParentFile; `next` is where control goes on success.
ApplyResolve(p, next) ==
  LET file == IF hasTsConfig THEN appTsConfig ELSE appJsConfig
      r == resolveConfig(config, file, p)
      called == IF truthyExtends(config.extends) THEN {"readConfig"} ELSE {}
      req == IF r.required THEN {"require:parent"} ELSE {}
  IN  /\ evaluated' = evaluated \cup called \cup req
      /\ rounds' = rounds + 1
      /\ parent' = IF r.required /\ r.err # "ConfigLoadError" THEN p ELSE parent
      /\ IF r.err # ""
         THEN /\ Fail(r.err)
              /\ UNCHANGED <<config, pathsRaw, aliasMap>>
         ELSE /\ config' = r.config
              /\ pathsRaw' = r.pathsRaw
              /\ aliasMap' = r.aliasMap
              /\ pc' = next
              /\ error' = error

\* Lines 192-196 and 201-205.
ResolveExtends ==
  /\ pc = "resolve"
  /\ \E p \in ParentConfigs : ApplyResolve(p, "options")
  /\ UNCHANGED <<fs, hasTsConfig, hasJsConfig, raw, additionalModulePaths,
                 webpackAliases, jestAliases>>

\* Lines 210-212.
AdditionalModulePaths ==
  /\ pc = "options"
  /\ evaluated' = evaluated \cup {"getAdditionalModulePaths"}
  /\ LET r == getAdditionalModulePaths(optionsOf(config))
     IN  IF r.err # ""
         THEN Fail(r.err) /\ UNCHANGED additionalModulePaths
         ELSE /\ additionalModulePaths' = r.val
              /\ pc' = "webpack"
              /\ error' = error
  /\ UNCHANGED <<fs, hasTsConfig, hasJsConfig, raw, parent, config, pathsRaw,
                 aliasMap, webpackAliases, jestAliases, rounds>>

\* Line 216.
WebpackAliases ==
  /\ pc = "webpack"
  /\ evaluated' = evaluated \cup {"getWebpackAliases"}
  /\ LET r == getWebpackAliases(optionsOf(config))
     IN  IF r.err # ""
         THEN Fail(r.err) /\ UNCHANGED webpackAliases
         ELSE /\ webpackAliases' = r.val
              /\ pc' = "jest"
              /\ error' = error
  /\ UNCHANGED <<fs, hasTsConfig, hasJsConfig, raw, parent, config, pathsRaw,
                 aliasMap, additionalModulePaths, jestAliases, rounds>>

\* Lines 217-219: the last sub-result, then the bundle is returned.
JestAliases ==
  /\ pc = "jest"
  /\ evaluated' = evaluated \cup {"getJestAliases"}
  /\ LET r == getJestAliases(optionsOf(config))
     IN  /\ jestAliases' = r.val
         /\ pc' = "done"
  /\ UNCHANGED <<fs, hasTsConfig, hasJsConfig, raw, parent, config, pathsRaw,
                 aliasMap, additionalModulePaths, webpackAliases, error, rounds>>

Next ==
  \/ CheckFiles
  \/ LoadTsConfig
  \/ LoadJsConfig
  \/ NoConfig
  \/ ResolveExtends
  \/ AdditionalModulePaths
  \/ WebpackAliases
  \/ JestAliases

Spec == Init /\ [][Next]_vars

(***************************************************************************)
(* The resolve step as a function of the config: every config a file may   *)
(* hold is resolved, and the result resolved again.                        *)
(***************************************************************************)
InitResolve ==
  /\ fs \in [ts : BOOLEAN, js : {FALSE}, typescript : {TRUE}]
  /\ pc = "resolve"
  /\ raw \in Configs
  /\ config = raw
  /\ Locals

Reresolve ==
  /\ pc = "resolve"
  /\ rounds < MaxRounds
  /\ \E p \in ParentConfigs : ApplyResolve(p, "resolve")
  /\ UNCHANGED <<fs, hasTsConfig, hasJsConfig, raw, additionalModulePaths,
                 webpackAliases, jestAliases>>

NextResolve == Reresolve

SpecResolve == InitResolve /\ [][NextResolve]_vars

(***************************************************************************)
(* Properties.                                                             *)
(***************************************************************************)
Terminal == pc \in {"done", "failed"}

Loaded == "loadConfig" \in evaluated

Merged == "readConfig" \in evaluated /\ error = "" /\ rounds = 1

\* baseUrl, a string, resolved against the project root
ResolvedBaseUrl(b) == pathResolve(appPath, b.s)

UnsupportedBaseUrl(b) ==
  /\ truthyStr(b)
  /\ ResolvedBaseUrl(b) \notin {appNodeModules, appSrc, appPath}

\* C1 (as stated): every loaded configuration whose baseUrl resolves to none
\* of node_modules, src and the project root makes getModules fail with
\* UnsupportedBaseUrlError.
C1_AsStated ==
  (Loaded /\ UnsupportedBaseUrl(raw.baseUrl) /\ Terminal)
    => (pc = "failed" /\ error = "UnsupportedBaseUrlError")

\* C1 (amended): such a configuration never yields a bundle, and whenever
\* getModules reaches getAdditionalModulePaths with it (one config file, the
\* extends merge, if any, completed) the failure is UnsupportedBaseUrlError,
\* raised before getWebpackAliases and getJestAliases are evaluated.
C1_UnsupportedBaseUrl ==
  (Loaded /\ UnsupportedBaseUrl(raw.baseUrl)) =>
    /\ config.baseUrl = raw.baseUrl
    /\ pc # "done"
    /\ "getAdditionalModulePaths" \in evaluated =>
         /\ pc = "failed"
         /\ error = "UnsupportedBaseUrlError"
         /\ additionalModulePaths = VUndef
         /\ "getWebpackAliases" \notin evaluated
         /\ "getJestAliases" \notin evaluated

C1_Witness ==
  /\ raw.baseUrl = SStr(<<".", "packages", "shared">>)
  /\ "getAdditionalModulePaths" \in evaluated
  /\ pc = "failed"
  /\ error = "UnsupportedBaseUrlError"

\* C2 (as stated): for every baseUrl string that resolves to node_modules or
\* to the project root, getAdditionalModulePaths yields null, never [srcDir]
\* and never ''.
C2_AsStated ==
  ( /\ "getAdditionalModulePaths" \in evaluated
    /\ config.co
    /\ config.baseUrl.k = "string"
    /\ ResolvedBaseUrl(config.baseUrl) \in {appNodeModules, appPath} )
    => (error # "UnsupportedBaseUrlError" /\ additionalModulePaths = VNull)

\* C2 (amended): for every non-empty baseUrl that resolves to node_modules or
\* to the project root, getAdditionalModulePaths yields null, never [srcDir]
\* and never ''.
C2_NotNeeded ==
  ( /\ "getAdditionalModulePaths" \in evaluated
    /\ config.co
    /\ truthyStr(config.baseUrl)
    /\ ResolvedBaseUrl(config.baseUrl) \in {appNodeModules, appPath} )
    => (error # "UnsupportedBaseUrlError" /\ additionalModulePaths = VNull)

C2_Witness ==
  /\ "getAdditionalModulePaths" \in evaluated
  /\ config.baseUrl = SStr(<<"src", "..">>)
  /\ additionalModulePaths = VNull

ScenarioA ==
  [co |-> TRUE, baseUrl |-> SStr(<<"src">>), paths |-> VUndef, extends |-> XUndef]

\* C3: with baseUrl "src", no paths and no extends, getModules returns the
\* bundle additionalModulePaths = [srcDir], webpackAliases = {},
\* jestAliases = {}.
C3_ScenarioA ==
  (Loaded /\ raw = ScenarioA /\ Terminal) =>
    /\ pc = "done"
    /\ additionalModulePaths = VArr(<<appSrc>>)
    /\ webpackAliases = VObj(<<>>)
    /\ jestAliases = VObj(<<>>)

ScenarioB ==
  [co |-> TRUE, baseUrl |-> SStr(<<".">>),
   paths |-> VObj(<<Entry(<<"@app", "*">>, TArr(<< <<"src", "app", "*">> >>))>>),
   extends |-> XUndef]

\* C4: with baseUrl ".", paths {"@app/*": ["src/app/*"]} and no extends,
\* getModules returns the bundle additionalModulePaths = null,
\* webpackAliases = {src: srcDir, "@app": "<root>/src/app"},
\* jestAliases = {"^src/(.*)$": "<rootDir>/src/$1"}.
C4_ScenarioB ==
  (Loaded /\ raw = ScenarioB /\ Terminal) =>
    /\ pc = "done"
    /\ additionalModulePaths = VNull
    /\ webpackAliases =
         VObj(<<Entry(<<"src">>, TStr(appSrc)),
                Entry(<<"@app">>, TStr(appPath \o <<"src", "app">>))>>)
    /\ jestAliases = VObj(JestSrcAlias)

\* C5: when both tsconfig.json and jsconfig.json exist, getModules fails
\* with ConflictingConfigError right after the existence checks: no config
\* is loaded, no parent is loaded or merged, no sub-result is evaluated.
C5_ConflictFirst ==
  (fs.ts /\ fs.js /\ pc # "start") =>
    /\ pc = "failed"
    /\ error = "ConflictingConfigError"
    /\ evaluated = {"existsSync"}
    /\ raw = EmptyConfig
    /\ config = EmptyConfig
    /\ parent = EmptyParent
    /\ pathsRaw = <<>> /\ aliasMap = <<>>
    /\ additionalModulePaths = VUndef
    /\ webpackAliases = VUndef
    /\ jestAliases = VUndef

C5_Witness ==
  /\ fs.ts /\ fs.js
  /\ hasTsConfig /\ hasJsConfig
  /\ pc = "failed"
  /\ error = "ConflictingConfigError"

\* The paths entries the child's file and the loaded parent define.
ChildPathEntries == IF raw.co THEN ownEntries(raw.paths) ELSE <<>>

ParentPathEntries == IF parent.co THEN ownEntries(parent.paths) ELSE <<>>

KeysOf(o) == { o[i].key : i \in 1..Len(o) }

CommonKeys == KeysOf(ChildPathEntries) \cap KeysOf(ParentPathEntries)

\* The alias value a paths value stands for: its first element if it is an
\* array, with one trailing "/*" removed, resolved against the project root.
AliasOf(value) ==
  TStr(pathResolve(appPath,
         stripWildcard(IF value.k = "array" THEN value.a[1] ELSE value.s)))

\* The last position of pathsRaw whose key strips to the same alias key as k.
LastWithAlias(k) ==
  CHOOSE i \in 1..Len(pathsRaw) :
    /\ stripWildcard(pathsRaw[i].key) = stripWildcard(k)
    /\ \A j \in 1..Len(pathsRaw) :
         stripWildcard(pathsRaw[j].key) = stripWildcard(k) => j <= i

\* C6 (as stated): for every paths key of both the child and its parent, the
\* resolved compilerOptions.paths associates that key with a value derived
\* from the parent's entries, never with one of the child's.
C6_AsStated ==
  Merged => \A k \in CommonKeys :
              getProp(config.paths.o, k)
                \in { AliasOf(ParentPathEntries[i].val) :
                        i \in 1..Len(ParentPathEntries) }

\* C6 (amended): for every paths key of both the child and its parent, the
\* merged mapping holds the parent's entry under that key, and the resolved
\* compilerOptions.paths associates the key with its trailing "/*" removed
\* with the value derived from the parent's entry unless a later key of the
\* merged mapping strips to the same alias; under a key that does end in
\* "/*" the resolved paths keeps the child's own, unnormalized entry.
C6_ParentWins ==
  Merged => \A k \in CommonKeys :
    /\ getProp(pathsRaw, k) = getProp(ParentPathEntries, k)
    /\ pathsRaw[LastWithAlias(k)].key = k =>
         getProp(config.paths.o, stripWildcard(k))
           = AliasOf(getProp(ParentPathEntries, k))
    /\ (stripWildcard(k) # k /\ ~hasKey(aliasMap, k)) =>
         getProp(config.paths.o, k) = getProp(ChildPathEntries, k)

C6_Witness ==
  /\ Merged
  /\ <<"utils", "*">> \in CommonKeys
  /\ getProp(ChildPathEntries, <<"utils", "*">>)
       # getProp(ParentPathEntries, <<"utils", "*">>)
  /\ getProp(config.paths.o, <<"utils">>) = TStr(appPath \o <<"base", "utils">>)

\* C7: after the merge, the alias map has, for every key k of the merged
\* mapping, an entry under k with one trailing "/*" removed, whose value is
\* the first element of the array, with one trailing "/*" removed and resolved
\* against the project root, of the last key that strips to the same alias;
\* it has no other entry; "components/*" -> ["./src/components/*", ...]
\* yields "components" -> "<projectRoot>/src/components".
C7_AliasNormalization ==
  Merged =>
    /\ \A i \in 1..Len(pathsRaw) :
         LET k == pathsRaw[i].key IN
         /\ hasKey(aliasMap, stripWildcard(k))
         /\ getProp(aliasMap, stripWildcard(k))
              = AliasOf(pathsRaw[LastWithAlias(k)].val)
    /\ KeysOf(aliasMap) = { stripWildcard(k) : k \in KeysOf(pathsRaw) }
    /\ \A i \in 1..Len(aliasMap) :
         getProp(config.paths.o, aliasMap[i].key) = aliasMap[i].val
    /\ hasKey(pathsRaw, <<"components", "*">>) =>
         getProp(aliasMap, <<"components">>)
           = TStr(<<"", "proj", "src", "components">>)

C7_Witness ==
  /\ Merged
  /\ Len(pathsRaw) = 3
  /\ pathsRaw[1].key = <<"utils", "*">>
  /\ pathsRaw[2].key = <<"components", "*">>
  /\ pathsRaw[3].key = <<"utils">>
  /\ Len(aliasMap) = 2
  /\ aliasMap[1] = Entry(<<"utils">>, TStr(appPath \o <<"base", "u">>))
  /\ aliasMap[2] = Entry(<<"components">>, TStr(appPath \o <<"src", "components">>))

\* C8 (as stated): resolving a config without extends returns it unchanged,
\* and resolving an already-resolved config again yields the same resolved
\* config.
C8_AsStated ==
  /\ (rounds >= 1 /\ ~truthyExtends(raw.extends)) =>
       (config = raw /\ error = "" /\ pc = "resolve")
  /\ (rounds = 2 /\ truthyExtends(raw.extends)) =>
       (error = "" /\ pc = "resolve")

\* C8 (amended): resolving a config without extends, once or again, returns
\* it unchanged (no merge is run, no extends field is added, paths are not
\* normalized); a config resolved through its extends holds the loaded parent
\* object as extends, and resolving it again fails with a TypeError instead
\* of returning it.
C8_ResolveIdempotence ==
  /\ (rounds >= 1 /\ ~truthyExtends(raw.extends)) =>
       /\ config = raw
       /\ error = ""
       /\ pc = "resolve"
       /\ evaluated = {}
       /\ pathsRaw = <<>> /\ aliasMap = <<>>
  /\ (rounds = 1 /\ truthyExtends(raw.extends) /\ error = "") =>
       config.extends = XObj(parent)
  /\ (rounds = 2 /\ truthyExtends(raw.extends)) =>
       /\ config.extends = XObj(parent)
       /\ pc = "failed"
       /\ error = "TypeError"

C8_Witness ==
  /\ rounds = 2
  /\ raw.extends = XStr(<<".", "base.json">>)
  /\ config.extends = XObj(parent)
  /\ config.paths.k = "object" /\ Len(config.paths.o) >= 2
  /\ pc = "failed"
  /\ error = "TypeError"

\* A paths value that is present but is not a mapping.
NotAMapping(v) == v.k \notin {"undefined", "null", "object"}

\* The merge got as far as configPathsRaw: readConfig ran and the parent was
\* loaded.
ParentLoaded ==
  /\ "readConfig" \in evaluated
  /\ "require:parent" \in evaluated
  /\ error # "ConfigLoadError"
  /\ rounds = 1

\* C9: during the merge, a child or parent paths value that is present but is
\* not a mapping makes resolution fail with InvalidPathsError; a mapping never
\* raises it.  Stated for a child that has compilerOptions.
C9_InvalidPaths ==
  (ParentLoaded /\ raw.co) =>
    LET childPaths == raw.paths
        parentPaths == IF parent.co THEN parent.paths ELSE VUndef
    IN  IF NotAMapping(childPaths) \/ NotAMapping(parentPaths)
        THEN pc = "failed" /\ error = "InvalidPathsError"
        ELSE error # "InvalidPathsError"

\* C10: a child with extends and no compilerOptions.paths (or no
\* compilerOptions at all) merges without error with every parent whose paths
\* are absent or a mapping, and the resolved paths are exactly the alias
\* entries of the parent's paths.
C10_AbsentPaths ==
  ( /\ ParentLoaded
    /\ ChildPathEntries = <<>> /\ (raw.co => raw.paths = VUndef)
    /\ (parent.co => parent.paths.k \in {"undefined", "object"}) )
    => /\ error = ""
       /\ pc # "failed"
       /\ config.paths = VObj(aliasReduce(<<>>, ParentPathEntries).val)

====
